---- MODULE Spec2Model ----
(***************************************************************************)
(* Model of the plugin scheduling core of einkocube:                       *)
(*   src/src/display/plugin_manager.py  (PluginManager)                    *)
(*   src/src/config_manager.py          (ConfigManager.get)                *)
(*   src/src/main.py                    (EInkInfoDisplay.run_daemon, main) *)
(*   src/src/web_app.py                 (run-now request handlers)         *)
(*                                                                         *)
(* Time is the wall clock read by datetime.now(), counted in whole units   *)
(* of TimeUnit seconds.  Plugin names are the non-empty strings of Names;  *)
(* Python's None is the string "None".                                     *)
(***************************************************************************)
EXTENDS Integers, Sequences, FiniteSets, TLC

VARIABLES
    config_api,         \* kind of object passed as config_manager
    default_plugin,     \* config["plugins"]["default"], "clock" when missing
    plugins,            \* self.plugins: loaded names in dict insertion order
    update_interval,    \* plugin.update_interval of every loaded plugin
    current_plugin,     \* self.current_plugin
    last_update_times,  \* self.last_update_times (NoTime = no entry)
    now,                \* datetime.now()
    call,               \* the public call made by the last step and what it did
    status,             \* the list returned by the last get_plugin_status()
    daemon,             \* main.py: EInkInfoDisplay.run_daemon and its caller
    web,                \* web_app.py: the request handlers in flight
    loader,             \* PluginManager._load_plugins: the loop over "enabled"
    round               \* the plugins rendered by the latest consecutive cycle() calls

vars == << config_api, default_plugin, plugins, update_interval,
           current_plugin, last_update_times, now, call,
           status, daemon, web, loader, round >>

----------------------------------------------------------------------------
(* Bounds of the model *)

MaxTime == 2            \* the clock runs from 0 to MaxTime
MaxInterval == 1        \* configured update intervals range over 0..MaxInterval
MaxEnabled == 3         \* length of the configured "enabled" list

(* Program constants *)

TimeUnit == 30                          \* seconds per unit of model time
ClockInterval == 60 \div TimeUnit       \* ClockPlugin.update_interval = 60

None == "None"
NoTime == -1
Names == {"clock", "weather", "prayer"}
\* plugins.default: "clock" in the default configuration (config_manager.py
\* line 64) and when the key is missing (plugin_manager.py line 189)
DefaultChoices == {"clock"}
ConfigApis == {"mapping", "ConfigManager"}
\* what run_plugin tells apart: render returned True, returned False after
\* painting the error frame, returned False without painting, or raised
RenderOutcomes == {"ok", "fallback", "false", "raise"}
RenderTimes == {0, 1}   \* a render returns at once or one unit of time later

Range(s) == { s[i] : i \in 1..Len(s) }
(* mutant: every known plugin name counts as loaded *)
Loaded_known(name) == name \in Names

Loaded(name) == name \in Range(plugins)

(* Python truthiness of self.current_plugin: None and "" are falsy *)
Truthy(x) == x # None /\ x # ""

----------------------------------------------------------------------------
(* ConfigManager.get takes a variable number of keys and a keyword-only    *)
(* default.  Called as get("plugins", {}), the second positional argument  *)
(* is taken as a key: config["plugins"][{}] raises TypeError, which get    *)
(* turns into its default, None.  A dict-like accessor returns the section.*)
(* The caller then calls .get on the result, which faults on None.         *)
ConfigGetFaults == config_api = "ConfigManager"

----------------------------------------------------------------------------
(* Loading: PluginManager._load_plugin / _load_plugins *)

load_plugin(reg, name, loadable) ==
    IF name \in loadable /\ name \notin Range(reg) THEN Append(reg, name)
    ELSE reg

RECURSIVE load_all(_, _, _)
load_all(reg, enabled, loadable) ==
    IF enabled = << >> THEN reg
    ELSE load_all(load_plugin(reg, Head(enabled), loadable), Tail(enabled), loadable)

load_plugins(dirExists, enabled, loadable) ==
    IF ~dirExists THEN << >> ELSE load_all(<< >>, enabled, loadable)

EnabledLists == UNION { [1..n -> Names] : n \in 0..MaxEnabled }

NoCall == [op |-> "init", name |-> None, force |-> FALSE, outcome |-> "none",
           result |-> "none", renders |-> 0, paints |-> 0]

(* The PluginManager as its constructor leaves it *)
InitManager ==
    /\ config_api \in ConfigApis
    /\ default_plugin \in DefaultChoices
    /\ \E dirExists \in BOOLEAN, enabled \in EnabledLists, loadable \in SUBSET Names :
          \* with the repository's ConfigManager the constructor faults as soon
          \* as the plugins directory exists, so no manager comes into being
          /\ (config_api = "ConfigManager") => ~dirExists
          /\ plugins = load_plugins(dirExists, enabled, loadable)
    /\ \E iv \in 0..MaxInterval :
          \* weather and prayer take the interval their settings configure
          update_interval = [n \in Names |->
                IF ~Loaded(n) THEN 0
                ELSE IF n = "clock" THEN ClockInterval ELSE iv]
    /\ current_plugin = None
    /\ last_update_times = [n \in Names |-> NoTime]
    /\ now = 0
    /\ call = NoCall

----------------------------------------------------------------------------
(* PluginManager._should_update_plugin *)

(* mutant: a recorded last run is never consulted *)
should_update_always(name) == TRUE

(* mutant: the elapsed-time comparison inverted *)
should_update_inverted(name) ==
    IF last_update_times[name] = NoTime THEN TRUE
    ELSE (now - last_update_times[name]) <= update_interval[name]

should_update_plugin(name) ==
    IF last_update_times[name] = NoTime THEN TRUE
    ELSE (now - last_update_times[name]) >= update_interval[name]

(* mutant: force_update is not consulted *)
skips_render_ignores_force(name, force) == ~should_update_plugin(name)

(* run_plugin line 132: the "doesn't need update yet" short-circuit *)
skips_render(name, force) == ~force /\ ~should_update_plugin(name)

(* show_image calls made by one render: the frame on success, the fallback *)
(* error frame of _render_error, nothing when the fault is only logged     *)
RenderPaints(outcome) == IF outcome \in {"ok", "fallback"} THEN 1 ELSE 0

(* mutant: every render that returns counts as successful *)
RenderSuccess_any(outcome) == TRUE

(* mutant: a painted fallback frame counts as a successful render *)
RenderSuccess_painted(outcome) == outcome \in {"ok", "fallback"}

(* plugin.render() returns True only on the success path *)
RenderSuccess(outcome) == outcome = "ok"

(* mutant: recording a success forgets the last runs of the other plugins *)
record_success_resets_others(name, t) ==
    [cur |-> name, last |-> [n \in Names |-> IF n = name THEN t ELSE NoTime]]

(* mutant: current_plugin is switched but no timestamp is recorded *)
record_success_no_timestamp(name, t) ==
    [cur |-> name, last |-> last_update_times]

(* mutant: the timestamp is recorded but current_plugin is not switched *)
record_success_keeps_current(name, t) ==
    [cur |-> current_plugin, last |-> [last_update_times EXCEPT ![name] = t]]

(* self.current_plugin / self.last_update_times after a successful render  *)
record_success(name, t) ==
    [cur |-> name, last |-> [last_update_times EXCEPT ![name] = t]]

(* PluginManager.run_plugin(plugin_name, force_update): what the call does *)
(* when a render, if invoked, has the given outcome and takes dur          *)
run_plugin(name, force, outcome, dur) ==
    IF ~Loaded(name) THEN
        [cur |-> current_plugin, last |-> last_update_times, t |-> now,
         outcome |-> "none", result |-> "false", renders |-> 0, paints |-> 0]
    ELSE IF skips_render(name, force) THEN
        [cur |-> current_plugin, last |-> last_update_times, t |-> now,
         outcome |-> "none", result |-> "true", renders |-> 0, paints |-> 0]
    ELSE IF RenderSuccess(outcome) THEN
        [cur |-> record_success(name, now + dur).cur,
         last |-> record_success(name, now + dur).last, t |-> now + dur,
         outcome |-> outcome, result |-> "true", renders |-> 1,
         paints |-> RenderPaints(outcome)]
    ELSE
        [cur |-> current_plugin, last |-> last_update_times, t |-> now + dur,
         outcome |-> outcome, result |-> "false", renders |-> 1,
         paints |-> RenderPaints(outcome)]

(* run_plugin reaches plugin.render() (line 140) *)
InvokesRender(name, force) ==
    Loaded(name) /\ ~skips_render(name, force)

Apply(op, name, force, r) ==
    /\ r.t <= MaxTime
    /\ current_plugin' = r.cur
    /\ last_update_times' = r.last
    /\ now' = r.t
    /\ call' = [op |-> op, name |-> name, force |-> force,
                outcome |-> r.outcome, result |-> r.result,
                renders |-> r.renders, paints |-> r.paints]
    /\ UNCHANGED << config_api, default_plugin, plugins, update_interval >>

(* What plugin.render() of the repository's plugins can do.  Every render  *)
(* body is inside try/except Exception, so none raises.  ClockPlugin logs  *)
(* the fault and returns False without painting; the other plugins call    *)
(* _render_error(), which paints the error frame and returns False, or     *)
(* only logs when painting the error frame faults as well.                 *)
render_outcomes(name) ==
    IF name = "clock" THEN {"ok", "false"}
    ELSE {"ok", "fallback", "false"}

(* A public call that ends in run_plugin(name, force) *)
DoRun(op, name, force) ==
    IF InvokesRender(name, force)
    THEN \E outcome \in render_outcomes(name), dur \in RenderTimes :
            Apply(op, name, force, run_plugin(name, force, outcome, dur))
    ELSE Apply(op, name, force, run_plugin(name, force, "none", 0))

(* A public call that ends before run_plugin is reached *)
NoRun(op, result) ==
    /\ call' = [op |-> op, name |-> None, force |-> FALSE, outcome |-> "none",
                result |-> result, renders |-> 0, paints |-> 0]
    /\ UNCHANGED << config_api, default_plugin, plugins, update_interval,
                    current_plugin, last_update_times, now >>

(* run_plugin called directly: main.run_single_update, web_app.run_plugin, *)
(* web_app.api_run_plugin                                                  *)
RunPlugin ==
    \E name \in Names, force \in BOOLEAN : DoRun("run", name, force)

----------------------------------------------------------------------------
(* PluginManager.update_display *)

CurrentUsable == Truthy(current_plugin) /\ Loaded(current_plugin)

(* mutant: a usable current_plugin makes the update move on to the plugin *)
(* loaded after it                                                         *)
select_default_advances ==
    IF CurrentUsable
    THEN LET i == CHOOSE j \in 1..Len(plugins) : plugins[j] = current_plugin
         IN  plugins[(i % Len(plugins)) + 1]
    ELSE IF Loaded(default_plugin) THEN default_plugin
    ELSE IF plugins # << >> THEN plugins[1]
    ELSE None

(* mutant: the configured default is not consulted *)
select_default_first_loaded ==
    IF CurrentUsable THEN current_plugin
    ELSE IF plugins # << >> THEN plugins[1]
    ELSE None

(* mutant: the configured default is preferred over current_plugin *)
select_default_config_first ==
    IF Loaded(default_plugin) THEN default_plugin
    ELSE IF CurrentUsable THEN current_plugin
    ELSE IF plugins # << >> THEN plugins[1]
    ELSE None

(* plugin_name as computed by lines 185-194 when no fault occurs *)
select_default ==
    IF CurrentUsable THEN current_plugin
    ELSE IF Loaded(default_plugin) THEN default_plugin
    ELSE IF plugins # << >> THEN plugins[1]
    ELSE None

update_display ==
    IF ~CurrentUsable /\ ConfigGetFaults THEN NoRun("update", "raise")
    ELSE IF ~Truthy(select_default) THEN NoRun("update", "false")
    ELSE DoRun("update", select_default, FALSE)

----------------------------------------------------------------------------
(* PluginManager.cycle_plugins *)

(* plugin_names.index(self.current_plugin), 0-based, -1 when absent *)
current_index ==
    IF Loaded(current_plugin)
    THEN (CHOOSE i \in 1..Len(plugins) : plugins[i] = current_plugin) - 1
    ELSE -1

(* mutant: the index advances by two *)
next_index_skips == (current_index + 2) % Len(plugins)

(* mutant: the index is clamped at the end of the list instead of wrapping *)
next_index_clamped ==
    IF current_index + 1 >= Len(plugins) THEN Len(plugins) - 1
    ELSE current_index + 1

next_index == (current_index + 1) % Len(plugins)

next_plugin == plugins[next_index + 1]

cycle_plugins ==
    IF plugins = << >> THEN NoRun("cycle", "false")
    ELSE DoRun("cycle", next_plugin, TRUE)

----------------------------------------------------------------------------
(* PluginManager.cleanup *)

(* mutant: the registry is cleared but current_plugin is kept *)
cleanup_keeps_current ==
    /\ plugins' = << >>
    /\ call' = [op |-> "cleanup", name |-> None, force |-> FALSE,
                outcome |-> "none", result |-> "none", renders |-> 0, paints |-> 0]
    /\ UNCHANGED << config_api, default_plugin, update_interval, current_plugin,
                    last_update_times, now >>

cleanup ==
    /\ plugins' = << >>
    /\ current_plugin' = None
    /\ call' = [op |-> "cleanup", name |-> None, force |-> FALSE,
                outcome |-> "none", result |-> "none", renders |-> 0, paints |-> 0]
    /\ UNCHANGED << config_api, default_plugin, update_interval,
                    last_update_times, now >>

----------------------------------------------------------------------------
(* PluginManager.get_plugin_status *)

(* datetime.isoformat(): the timestamp as text, one text per timestamp *)
isoformat(t) == << "iso", t >>

(* mutant: needs_update is reported as true for every plugin *)
status_entry_always_due(name) ==
    [name |-> name,
     loaded |-> TRUE,
     current |-> (name = current_plugin),
     last_update |-> IF last_update_times[name] = NoTime THEN << None >>
                     ELSE isoformat(last_update_times[name]),
     update_interval |-> update_interval[name],
     needs_update |-> TRUE]

(* status[plugin_name] as built by lines 236-243 *)
status_entry(name) ==
    [name |-> name,
     loaded |-> TRUE,
     current |-> (name = current_plugin),
     last_update |-> IF last_update_times[name] = NoTime THEN << None >>
                     ELSE isoformat(last_update_times[name]),
     update_interval |-> update_interval[name],
     needs_update |-> should_update_plugin(name)]

get_plugin_status ==
    /\ status' = [i \in 1..Len(plugins) |-> status_entry(plugins[i])]
    /\ call' = [op |-> "status", name |-> None, force |-> FALSE,
                outcome |-> "none", result |-> "none", renders |-> 0, paints |-> 0]
    /\ UNCHANGED << config_api, default_plugin, plugins, update_interval,
                    current_plugin, last_update_times, now >>

NoStatus == << >>
NoWeb == [pc |-> "off"]
NoLoader == [pc |-> "off"]
NoRound == [start |-> None, seq |-> << >>]

----------------------------------------------------------------------------
(* The wall clock advances between calls *)
Tick ==
    /\ now < MaxTime
    /\ now' = now + 1
    /\ call' = [op |-> "tick", name |-> None, force |-> FALSE,
                outcome |-> "none", result |-> "none", renders |-> 0, paints |-> 0]
    /\ UNCHANGED << config_api, default_plugin, plugins, update_interval,
                    current_plugin, last_update_times >>

----------------------------------------------------------------------------
(* main.py: EInkInfoDisplay.run_daemon, stop, and the handlers of main    *)
(*                                                                         *)
(* daemon.pc is the place control has reached:                             *)
(*   "stopped"        run_daemon not yet called                            *)
(*   "initial_update" initialize() succeeded, before line 167              *)
(*   "loop"           at the while test of line 171                        *)
(*   "sleep"          in time.sleep(30), line 190                          *)
(*   "stop_registry"  stop() entered, before plugin_manager.cleanup()      *)
(*   "stop_display"   in stop(), before display_manager.cleanup()          *)
(*   "done"           run_daemon has returned or the process has exited    *)

MaxDaemonInterval == 2  \* --update-interval ranges over 0..MaxDaemonInterval

DaemonIntervals == 0..MaxDaemonInterval

RunningPcs == {"initial_update", "loop", "sleep"}

(* EInkInfoDisplay.__init__ *)
NewDaemon(interval) ==
    [pc |-> "stopped", running |-> FALSE, update_interval |-> interval,
     last_update |-> 0, display_manager |-> FALSE, plugin_manager |-> FALSE,
     registry_cleanups |-> 0, surface_cleanups |-> 0,
     in_main |-> FALSE, exit |-> "none"]

NoDaemon == [pc |-> "off"]

DaemonOnly == status' = NoStatus /\ UNCHANGED << web, loader, round >>

(* the constructor that raises inside initialize(): EInkDisplayManager     *)
(* re-raises ImportError; PluginManager raises with the repository's       *)
(* ConfigManager once the plugins directory exists                         *)
InitializeFaults ==
    {"none", "display_manager"} \cup
    (IF ConfigGetFaults THEN {"plugin_manager"} ELSE {})

(* run_daemon lines 160-164 with initialize() *)
daemon_initialize ==
    /\ daemon.pc = "stopped"
    /\ \E fault \in InitializeFaults :
          /\ daemon' = [daemon EXCEPT
                !.display_manager = fault # "display_manager",
                !.plugin_manager = fault = "none",
                !.running = fault = "none",
                !.pc = IF fault = "none" THEN "initial_update" ELSE "done",
                !.exit = IF fault = "none" THEN "none" ELSE "return_false"]
          /\ NoRun("initialize", IF fault = "none" THEN "true" ELSE "false")
    /\ DaemonOnly

(* lines 166-168: the initial update, outside the try of line 170; a fault *)
(* leaves run_daemon and reaches the "except Exception" of main            *)
daemon_initial_update ==
    /\ daemon.pc = "initial_update"
    /\ update_display
    /\ daemon' = IF call'.result = "raise"
                 THEN [daemon EXCEPT !.pc = "stop_registry", !.in_main = TRUE,
                                     !.exit = "exit_1"]
                 ELSE [daemon EXCEPT !.pc = "loop", !.last_update = now']
    /\ DaemonOnly

(* mutant: every wake calls update_display, whatever time has elapsed *)
daemon_wake_ungated ==
    /\ daemon.pc = "loop"
    /\ daemon.running
    /\ update_display
    /\ daemon' = [daemon EXCEPT
          !.pc = "sleep",
          !.last_update = IF call'.result = "true" THEN now ELSE @]
    /\ DaemonOnly

(* mutant: the last_update mark advances whatever update_display returned *)
daemon_wake_marks_always ==
    /\ daemon.pc = "loop"
    /\ daemon.running
    /\ IF now - daemon.last_update >= daemon.update_interval
       THEN /\ update_display
            /\ daemon' = [daemon EXCEPT !.pc = "sleep", !.last_update = now]
       ELSE /\ NoRun("wake", "none")
            /\ daemon' = [daemon EXCEPT !.pc = "sleep"]
    /\ DaemonOnly

(* lines 171-187: one pass of the loop up to the sleep *)
daemon_wake ==
    /\ daemon.pc = "loop"
    /\ daemon.running
    /\ IF now - daemon.last_update >= daemon.update_interval
       THEN /\ update_display
            /\ daemon' = [daemon EXCEPT
                  !.pc = "sleep",
                  !.last_update = IF call'.result = "true" THEN now ELSE @]
       ELSE /\ NoRun("wake", "none")
            /\ daemon' = [daemon EXCEPT !.pc = "sleep"]
    /\ DaemonOnly

(* line 190: time.sleep(30) *)
daemon_sleep ==
    /\ daemon.pc = "sleep"
    /\ Tick
    /\ daemon' = [daemon EXCEPT !.pc = "loop"]
    /\ DaemonOnly

(* KeyboardInterrupt.  Inside the try of line 170 it is handled at line    *)
(* 192 and the finally clause calls stop(); before the try, or inside      *)
(* stop() itself, it reaches main, which calls app.stop()                  *)
daemon_interrupt ==
    /\ daemon.pc \in RunningPcs \cup {"stop_registry", "stop_display"}
    /\ ~daemon.in_main
    /\ daemon' = [daemon EXCEPT
          !.pc = "stop_registry",
          !.in_main = daemon.pc \notin {"loop", "sleep"},
          !.exit = IF daemon.pc \in {"loop", "sleep"} THEN "return" ELSE "exit_0"]
    /\ NoRun("interrupt", "none")
    /\ DaemonOnly

(* stop() lines 201-205 *)
daemon_stop_registry ==
    /\ daemon.pc = "stop_registry"
    /\ IF daemon.plugin_manager
       THEN /\ cleanup
            /\ daemon' = [daemon EXCEPT !.pc = "stop_display", !.running = FALSE,
                                        !.registry_cleanups = @ + 1]
       ELSE /\ NoRun("stop", "none")
            /\ daemon' = [daemon EXCEPT !.pc = "stop_display", !.running = FALSE]
    /\ DaemonOnly

(* stop() lines 207-208 and the return or sys.exit that follows *)
daemon_stop_display ==
    /\ daemon.pc = "stop_display"
    /\ daemon' = [daemon EXCEPT
          !.pc = "done",
          !.surface_cleanups = IF daemon.display_manager THEN @ + 1 ELSE @]
    /\ NoRun("stop", "none")
    /\ DaemonOnly

InitDaemon ==
    /\ InitManager
    /\ status = NoStatus
    /\ \E interval \in DaemonIntervals : daemon = NewDaemon(interval)
    /\ web = NoWeb
    /\ loader = NoLoader
    /\ round = NoRound

NextDaemon ==
    \/ daemon_initialize
    \/ daemon_initial_update
    \/ daemon_wake
    \/ daemon_sleep
    \/ daemon_interrupt
    \/ daemon_stop_registry
    \/ daemon_stop_display

DaemonSpec == InitDaemon /\ [][NextDaemon]_vars

----------------------------------------------------------------------------
(* main.py without --daemon: EInkInfoDisplay.run_single_update and the     *)
(* sys.exit of main.  daemon.pc is "stopped", "single_update" (initialize  *)
(* succeeded, before line 134), a place inside stop(), or "done".          *)

(* run_single_update lines 131-132 with initialize(); on failure main      *)
(* calls sys.exit(1)                                                       *)
single_initialize ==
    /\ daemon.pc = "stopped"
    /\ \E fault \in InitializeFaults :
          /\ daemon' = [daemon EXCEPT
                !.display_manager = fault # "display_manager",
                !.plugin_manager = fault = "none",
                !.pc = IF fault = "none" THEN "single_update" ELSE "done",
                !.exit = IF fault = "none" THEN "none" ELSE "exit_1"]
          /\ NoRun("initialize", IF fault = "none" THEN "true" ELSE "false")
    /\ DaemonOnly

(* lines 134-152: run_plugin(args.plugin) when --plugin is given, else     *)
(* update_display(); a fault is caught and counts as failure.  main then   *)
(* calls sys.exit, whose SystemExit passes both except clauses of main, so *)
(* the process ends without stop()                                         *)
single_update ==
    /\ daemon.pc = "single_update"
    /\ \E plugin_name \in Names \cup {None} :
          IF Truthy(plugin_name) THEN DoRun("run", plugin_name, FALSE)
          ELSE update_display
    /\ daemon' = [daemon EXCEPT
          !.pc = "done",
          !.exit = IF call'.result = "true" THEN "exit_0" ELSE "exit_1"]
    /\ DaemonOnly

(* KeyboardInterrupt during the update: main's handler calls app.stop() *)
single_interrupt ==
    /\ daemon.pc = "single_update"
    /\ daemon' = [daemon EXCEPT !.pc = "stop_registry", !.in_main = TRUE,
                                !.exit = "exit_0"]
    /\ NoRun("interrupt", "none")
    /\ DaemonOnly

InitSingle ==
    /\ InitManager
    /\ status = NoStatus
    /\ daemon = NewDaemon(0)
    /\ web = NoWeb
    /\ loader = NoLoader
    /\ round = NoRound

NextSingle ==
    \/ single_initialize
    \/ single_update
    \/ single_interrupt
    \/ daemon_stop_registry
    \/ daemon_stop_display

SingleSpec == InitSingle /\ [][NextSingle]_vars

----------------------------------------------------------------------------

----------------------------------------------------------------------------
(* web_app.py: run-now requests.  app.run() of Flask >= 2.0 serves every   *)
(* request on a thread of its own; all handlers use the one module-level   *)
(* plugin_manager, and run_plugin takes no lock.  web[h].pc is "idle" or   *)
(* "render": handler h is inside plugin.render() (run_plugin line 140).    *)

Handlers == {1, 2}

WebOnly == status' = NoStatus /\ UNCHANGED << daemon, loader, round >>

(* api_run_plugin / run_plugin route: run_plugin(name, force_update=True)  *)
(* up to the call of plugin.render(), lines 125-140                        *)
web_run_begin ==
    \E h \in Handlers, name \in Names :
        /\ web[h].pc = "idle"
        /\ IF Loaded(name)
           THEN /\ web' = [web EXCEPT ![h] = [pc |-> "render", name |-> name]]
                /\ call' = [op |-> "begin", name |-> name, force |-> TRUE,
                            outcome |-> "none", result |-> "none",
                            renders |-> 1, paints |-> 0]
                /\ UNCHANGED << config_api, default_plugin, plugins,
                                update_interval, current_plugin,
                                last_update_times, now >>
           ELSE /\ web' = web
                /\ Apply("run", name, TRUE, run_plugin(name, TRUE, "none", 0))
        /\ WebOnly

(* plugin.render() returns and run_plugin records the result, lines 140-153 *)
web_run_end ==
    \E h \in Handlers :
        /\ web[h].pc = "render"
        /\ \E outcome \in render_outcomes(web[h].name), dur \in RenderTimes :
              Apply("run", web[h].name, TRUE,
                    run_plugin(web[h].name, TRUE, outcome, dur))
        /\ web' = [web EXCEPT ![h] = [pc |-> "idle", name |-> None]]
        /\ WebOnly

InitWeb ==
    /\ InitManager
    /\ status = NoStatus
    /\ daemon = NoDaemon
    /\ web = [h \in Handlers |-> [pc |-> "idle", name |-> None]]
    /\ loader = NoLoader
    /\ round = NoRound

NextWeb ==
    \/ web_run_begin
    \/ web_run_end

WebSpec == InitWeb /\ [][NextWeb]_vars

----------------------------------------------------------------------------
(* PluginManager._load_plugins / _load_plugin, one name of "enabled" per   *)
(* step.  What importing plugins.<name>_plugin and scanning dir(module)    *)
(* gives for a name (lines 62-87):                                         *)
(*   "missing"     the import raises ImportError                           *)
(*   "ctor_fails"  the plugin class is found and its constructor raises    *)
(*   "base_first"  the module holds a working plugin class and the         *)
(*                 abstract BasePlugin it imported by name; dir() is       *)
(*                 sorted, "BasePlugin" comes first and has a render       *)
(*                 attribute, so the loader instantiates the abstract      *)
(*                 class and gets TypeError                                *)
(*   "ok"          the first matching class is the plugin class and it     *)
(*                 constructs                                              *)

ModuleKinds == {"missing", "ctor_fails", "base_first", "ok"}

(* self.plugins[plugin_name] = plugin_instance is reached (line 87) *)
loads(kind) == kind = "ok"

LoadOnly == status' = NoStatus /\ UNCHANGED << daemon, web, round >>

LoaderSame ==
    UNCHANGED << config_api, default_plugin, update_interval, current_plugin,
                 last_update_times, now >>

(* lines 35-46: the directory test and the read of plugins.enabled *)
load_begin ==
    /\ loader.pc = "start"
    /\ loader' = [loader EXCEPT
          !.pc = IF ~loader.dir THEN "done"
                 ELSE IF ConfigGetFaults THEN "raised"
                 ELSE "loop"]
    /\ plugins' = plugins
    /\ call' = [NoCall EXCEPT !.op = "load"]
    /\ LoaderSame
    /\ LoadOnly

(* lines 49-53: one pass of the for loop *)
load_next ==
    /\ loader.pc = "loop"
    /\ loader.i <= Len(loader.enabled)
    /\ plugins' = load_plugin(plugins, loader.enabled[loader.i],
                              { n \in Names : loads(loader.kind[n]) })
    /\ loader' = [loader EXCEPT !.i = @ + 1]
    /\ call' = [NoCall EXCEPT !.op = "load", !.name = loader.enabled[loader.i]]
    /\ LoaderSame
    /\ LoadOnly

(* line 55: the loop is exhausted *)
load_end ==
    /\ loader.pc = "loop"
    /\ loader.i > Len(loader.enabled)
    /\ loader' = [loader EXCEPT !.pc = "done"]
    /\ plugins' = plugins
    /\ call' = [NoCall EXCEPT !.op = "load"]
    /\ LoaderSame
    /\ LoadOnly

InitLoad ==
    /\ config_api \in ConfigApis
    /\ default_plugin \in DefaultChoices
    /\ plugins = << >>
    /\ update_interval = [n \in Names |-> 0]
    /\ current_plugin = None
    /\ last_update_times = [n \in Names |-> NoTime]
    /\ now = 0
    /\ call = NoCall
    /\ status = NoStatus
    /\ daemon = NoDaemon
    /\ web = NoWeb
    /\ round = NoRound
    /\ \E dirExists \in BOOLEAN, enabled \in EnabledLists,
          kind \in [Names -> ModuleKinds] :
          loader = [pc |-> "start", dir |-> dirExists, enabled |-> enabled,
                    kind |-> kind, i |-> 1]

NextLoad ==
    \/ load_begin
    \/ load_next
    \/ load_end

LoadSpec == InitLoad /\ [][NextLoad]_vars

----------------------------------------------------------------------------
(* Runs of consecutive cycle_plugins() calls.  round.seq lists the plugins *)
(* rendered by the latest consecutive successful cycle() calls, at most as *)
(* many as are loaded, and round.start is current_plugin as it was before  *)
(* the first of them.  Any other call, and a cycle() that fails, starts a  *)
(* new run.                                                                *)

RoundOnly == status' = NoStatus /\ UNCHANGED << daemon, web, loader >>

cycle_round ==
    /\ cycle_plugins
    /\ round' = IF call'.renders = 1 /\ call'.outcome = "ok"
                THEN IF Len(round.seq) < Len(plugins)
                     THEN [round EXCEPT !.seq = Append(@, call'.name)]
                     ELSE [start |-> current_plugin, seq |-> << call'.name >>]
                ELSE [start |-> current_plugin', seq |-> << >>]
    /\ RoundOnly

(* a direct run_plugin call between runs of cycle() calls *)
run_between_rounds ==
    /\ RunPlugin
    /\ round' = [start |-> current_plugin', seq |-> << >>]
    /\ RoundOnly

InitCycle ==
    /\ InitManager
    /\ status = NoStatus
    /\ daemon = NoDaemon
    /\ web = NoWeb
    /\ loader = NoLoader
    /\ round = NoRound

NextCycle ==
    \/ cycle_round
    \/ run_between_rounds

CycleSpec == InitCycle /\ [][NextCycle]_vars

----------------------------------------------------------------------------
(* The plugin manager driven through its public calls in any order *)

(* a step of the manager alone: no status list is returned, and the daemon, *)
(* the web handlers and the loader take no step                             *)
ManagerOnly == status' = NoStatus /\ UNCHANGED << daemon, web, loader, round >>

Init ==
    /\ InitManager
    /\ status = NoStatus
    /\ daemon = NoDaemon
    /\ web = NoWeb
    /\ loader = NoLoader
    /\ round = NoRound

Next ==
    \/ RunPlugin /\ ManagerOnly
    \/ update_display /\ ManagerOnly
    \/ cycle_plugins /\ ManagerOnly
    \/ cleanup /\ ManagerOnly
    \/ get_plugin_status /\ UNCHANGED << daemon, web, loader, round >>
    \/ Tick /\ ManagerOnly

Spec == Init /\ [][Next]_vars

TypeOK ==
    /\ config_api \in ConfigApis
    /\ default_plugin \in DefaultChoices
    /\ Range(plugins) \subseteq Names
    /\ current_plugin \in Names \cup {None}
    /\ last_update_times \in [Names -> {NoTime} \cup (0..MaxTime)]
    /\ now \in 0..MaxTime
    /\ \A i \in 1..Len(status) :
          /\ status[i].name \in Names
          /\ status[i].needs_update \in BOOLEAN
          /\ status[i].current \in BOOLEAN
    /\ daemon.pc \in {"off", "stopped", "done"} \cup RunningPcs
                        \cup {"stop_registry", "stop_display", "single_update"}
    /\ web = NoWeb \/ \A h \in Handlers : web[h].pc \in {"idle", "render"}
    /\ loader.pc \in {"off", "start", "loop", "raised", "done"}
    /\ round.start \in Names \cup {None}
    /\ Range(round.seq) \subseteq Names

----------------------------------------------------------------------------
(* Properties of the scheduler.  A primed call describes the public call   *)
(* made by the step; unprimed variables are the state the call started in. *)

IsLoaded(p) == \E i \in 1..Len(plugins) : plugins[i] = p

(* "p has no recorded last run, or at least its interval has elapsed" *)
DueAt(p, last, t) == last[p] = NoTime \/ t - last[p] >= update_interval[p]

Unchanged == current_plugin' = current_plugin /\ last_update_times' = last_update_times

(* C1: for a loaded plugin P a non-forced run renders exactly when P has no
   last-run timestamp or at least P.update_interval has elapsed since it
   (boundary inclusive), and right after a successful non-forced run P is
   no longer due. *)
C1_ShouldUpdateIffDueAndFalseAfterRun ==
    [][ \A p \in Names :
          (call'.op \in {"run", "update"} /\ call'.name = p /\ ~call'.force /\ IsLoaded(p))
          => /\ (call'.renders = 1) <=> DueAt(p, last_update_times, now)
             /\ (call'.renders = 1 /\ call'.result = "true")
                    => ~DueAt(p, last_update_times', now')
      ]_vars

(* C2: a non-forced run of a loaded plugin that is not due returns success,
   invokes no render, paints nothing and leaves current_plugin and every
   last_run entry unchanged; with a single plugin loaded, an update_display()
   made less than update_interval after that plugin's successful render
   returns success without a paint. *)
C2_NotDueRunIsNoOp ==
    [][ /\ \A p \in Names :
             (/\ call'.op \in {"run", "update"} /\ call'.name = p /\ ~call'.force
              /\ IsLoaded(p) /\ ~DueAt(p, last_update_times, now))
             => /\ call'.result = "true"
                /\ call'.renders = 0
                /\ call'.paints = 0
                /\ Unchanged
        /\ (/\ call'.op = "update"
            /\ Len(plugins) = 1
            /\ last_update_times[plugins[1]] # NoTime
            /\ now - last_update_times[plugins[1]] < update_interval[plugins[1]])
           => /\ call'.result = "true"
              /\ call'.paints = 0
              /\ call'.name = plugins[1]
      ]_vars

C2_Witness ==
    /\ call.op = "update"
    /\ Len(plugins) = 1
    /\ call.name = plugins[1]
    /\ call.result = "true"
    /\ call.renders = 0
    /\ last_update_times[plugins[1]] # NoTime
    /\ now > last_update_times[plugins[1]]

(* C3: when run invokes render and render succeeds, run returns success,
   current_plugin is the plugin run and its last_run entry is the time of
   this run, which is not earlier than any timestamp recorded before. *)
C3_SuccessRecordsCurrentAndTime ==
    [][ \A p \in Names :
          (call'.name = p /\ call'.renders = 1 /\ call'.outcome = "ok")
          => /\ call'.result = "true"
             /\ current_plugin' = p
             /\ last_update_times'[p] = now'
             /\ \A q \in Names : last_update_times[q] <= last_update_times'[p]
      ]_vars

C3_Witness ==
    /\ call.renders = 1
    /\ call.outcome = "ok"
    /\ call.result = "true"
    /\ current_plugin = call.name
    /\ last_update_times[call.name] = now
    /\ \E q \in Names : q # call.name /\ last_update_times[q] # NoTime

(* C4: when the render invoked by run returns false or raises, run returns
   failure after that single render and current_plugin and all last_run
   entries are as before; a last_run entry appears or changes, and
   current_plugin switches to a plugin, only through a successful render of
   that plugin. *)
C4_FailedRenderChangesNothing ==
    [][ /\ (call'.renders >= 1 /\ call'.outcome # "ok")
           => /\ call'.result = "false"
              /\ call'.renders = 1
              /\ Unchanged
        /\ call'.renders <= 1
        /\ \A p \in Names :
             (last_update_times'[p] # last_update_times[p])
             => (call'.name = p /\ call'.outcome = "ok")
        /\ (current_plugin' # current_plugin /\ current_plugin' # None)
           => (call'.name = current_plugin' /\ call'.outcome = "ok")
      ]_vars

C4_Witness ==
    /\ call.renders = 1
    /\ call.outcome = "fallback"
    /\ call.result = "false"
    /\ IsLoaded(call.name)
    /\ last_update_times[call.name] = NoTime
    /\ current_plugin # None
    /\ current_plugin # call.name

(* C5: update_display() targets current_plugin if it is set and loaded,
   otherwise the configured default if loaded, otherwise the first loaded
   name, otherwise nothing; it runs exactly that target without force. *)
C5_Target ==
    IF current_plugin # None /\ IsLoaded(current_plugin) THEN current_plugin
    ELSE IF IsLoaded(default_plugin) THEN default_plugin
    ELSE IF Len(plugins) > 0 THEN plugins[1]
    ELSE None

C5_UpdateDisplayTarget ==
    [][ (call'.op = "update")
        => /\ call'.name = C5_Target
           /\ call'.force = FALSE
           /\ (C5_Target = None) => (call'.renders = 0 /\ Unchanged)
           /\ (C5_Target # None)
                => ((call'.renders = 1) <=> DueAt(C5_Target, last_update_times, now))
      ]_vars

C5_Witness ==
    /\ call.op = "update"
    /\ call.renders = 0
    /\ call.result = "true"
    /\ call.name = current_plugin
    /\ IsLoaded(default_plugin)
    /\ default_plugin # current_plugin
    /\ plugins[1] # current_plugin
    /\ plugins[1] # default_plugin

(* C6: cycle() with at least one loaded plugin runs, with force, the plugin
   that follows current_plugin in load order, wrapping after the last one,
   and the first plugin when current_plugin is unset or not loaded; with
   [clock, weather, prayer] loaded, weather is followed by prayer, prayer by
   clock, and no current plugin by clock. *)
C6_Target ==
    IF IsLoaded(current_plugin)
    THEN LET i == CHOOSE j \in 1..Len(plugins) : plugins[j] = current_plugin
         IN  IF i = Len(plugins) THEN plugins[1] ELSE plugins[i + 1]
    ELSE plugins[1]

C6_CycleTarget ==
    [][ (call'.op = "cycle" /\ Len(plugins) >= 1)
        => /\ call'.name = C6_Target
           /\ call'.force = TRUE
           /\ (plugins = << "clock", "weather", "prayer" >>)
                => /\ (current_plugin = "weather") => (call'.name = "prayer")
                   /\ (current_plugin = "prayer") => (call'.name = "clock")
                   /\ (current_plugin = None) => (call'.name = "clock")
      ]_vars

C6_Witness ==
    /\ call.op = "cycle"
    /\ plugins = << "clock", "weather", "prayer" >>
    /\ current_plugin = "prayer"
    /\ call.name = "clock"
    /\ call.renders = 1
    /\ call.outcome # "ok"

(* C7: a forced run of a loaded plugin always invokes its render, due or
   not; cycle() always invokes the render of its target. *)
C7_ForceAlwaysRenders ==
    [][ /\ (call'.op \in {"run", "cycle"} /\ call'.force /\ IsLoaded(call'.name))
           => call'.renders = 1
        /\ (call'.op = "cycle" /\ Len(plugins) >= 1) => call'.renders = 1
      ]_vars

C7_Witness ==
    /\ call.op = "cycle"
    /\ call.force
    /\ call.renders = 1
    /\ call.outcome # "ok"
    /\ last_update_times[call.name] # NoTime
    /\ now - last_update_times[call.name] < update_interval[call.name]

(* C8: run_plugin with a name that is not loaded fails, with or without
   force, invokes no render, paints nothing and leaves current_plugin and
   all last_run entries unchanged. *)
C8_UnloadedNameFails ==
    [][ (call'.op = "run" /\ ~IsLoaded(call'.name))
        => /\ call'.result = "false"
           /\ call'.renders = 0
           /\ call'.paints = 0
           /\ Unchanged
      ]_vars

C8_Witness ==
    /\ call.op = "run"
    /\ ~IsLoaded(call.name)
    /\ call.force
    /\ call.result = "false"
    /\ current_plugin # None

(* C9: with an empty registry update_display() and cycle() both return
   false at once, invoke no render and leave current_plugin and last_run
   unchanged. *)
C9_EmptyRegistryReturnsFalse ==
    [][ (call'.op \in {"update", "cycle"} /\ Len(plugins) = 0)
        => /\ call'.result = "false"
           /\ call'.renders = 0
           /\ Unchanged
      ]_vars

(* C10: current_plugin is always unset or a key of the registry. *)
C10_CurrentIsLoaded ==
    current_plugin = None \/ IsLoaded(current_plugin)

C10_Witness ==
    /\ call.op = "cleanup"
    /\ current_plugin = None
    /\ \E p \in Names : last_update_times[p] # NoTime

(* C11: in every reachable state, also after cleanup(), every plugin name
   with a last-run entry in last_update_times is a key of the registry. *)
C11_ScheduleKeysAreLoaded ==
    \A p \in Names : last_update_times[p] # NoTime => IsLoaded(p)

----------------------------------------------------------------------------
(* Properties of the daemon, checked under DaemonSpec.  A step with        *)
(* daemon.pc = "loop" that is not an interrupt is one wake of the loop.    *)

DaemonWakes == daemon.pc = "loop" /\ call'.op # "interrupt"

(* C12 as stated: after start the daemon makes one immediate
   update_display() call and calls update_display() again at every wake;
   only the selected plugin's due test decides whether a wake renders, so
   a plugin that is due at a wake is rendered at that wake. *)
C12_EveryWakeCallsUpdateDisplay ==
    [][ /\ (daemon.pc = "initial_update" /\ call'.op # "interrupt")
            => call'.op = "update"
        /\ DaemonWakes
            => /\ call'.op = "update"
               /\ (C5_Target # None /\ DueAt(C5_Target, last_update_times, now))
                    => (call'.renders = 1 /\ call'.name = C5_Target)
      ]_vars

(* C12 amended: after start the daemon makes one immediate update_display()
   call; at a wake it calls update_display() exactly when at least the
   daemon-level update interval has elapsed since its last_update mark, and
   a call that selects a plugin renders it exactly when that plugin is due. *)
C12_WakeCallsUpdateDisplayWhenIntervalElapsed ==
    [][ /\ (daemon.pc = "initial_update" /\ call'.op # "interrupt")
            => call'.op = "update"
        /\ DaemonWakes
            => /\ (call'.op = "update")
                    <=> (now - daemon.last_update >= daemon.update_interval)
               /\ (call'.op = "update" /\ call'.result # "raise" /\ C5_Target # None)
                    => /\ call'.name = C5_Target
                       /\ (call'.renders = 1)
                            <=> DueAt(C5_Target, last_update_times, now)
      ]_vars

C12_Witness ==
    /\ daemon.pc = "sleep"
    /\ call.op = "wake"
    /\ now - daemon.last_update < daemon.update_interval
    /\ C5_Target # None
    /\ DueAt(C5_Target, last_update_times, now)

(* C13: a fault raised inside an update_display() call of the daemon, the
   initial one or a scheduled one, is caught at the loop boundary and the
   loop goes on to its next tick; the loop ends only through stop() or an
   external interrupt. *)
C13_UpdateFaultIsCaughtAtLoopBoundary ==
    [][ /\ (daemon.pc \in {"initial_update", "loop"} /\ call'.op = "update"
                /\ call'.result = "raise")
            => daemon'.pc \in {"loop", "sleep"}
        /\ (daemon.pc \in RunningPcs /\ daemon'.pc \notin RunningPcs)
            => call'.op = "interrupt"
      ]_vars

(* C14: a failed update_display() never ends the daemon: with an empty
   registry, or with a selected plugin whose render fails, the daemon stays
   running and goes on polling. *)
C14_FailedUpdateKeepsDaemonRunning ==
    [][ (daemon.pc \in {"initial_update", "loop"} /\ call'.op = "update"
            /\ (Len(plugins) = 0 \/ call'.result = "false"))
        => /\ daemon'.running
           /\ daemon'.pc \in {"loop", "sleep"}
      ]_vars

(* C15: for every start of the daemon the cleanup of the registry and the
   cleanup of the output surface are each invoked exactly once, however the
   run ends: stop, interrupt at any point after start, fault, or failed
   initialization. *)
C15_CleanupExactlyOncePerStart ==
    daemon.pc = "done"
        => (daemon.registry_cleanups = 1 /\ daemon.surface_cleanups = 1)

(* C16: render() never lets a fault escape to run_plugin, and whenever
   render() returns false a fallback error frame was handed to show_image
   during that same call. *)
C16_FalseRenderHasPaintedFallback ==
    (call.renders = 1)
        => /\ call.outcome # "raise"
           /\ (call.result = "false") => (call.paints >= 1)

(* C17: no two renders ever run concurrently, also when run-now requests
   of the web interface arrive while another run is still in progress: at
   most one handler is inside run_plugin's render at any time. *)
C17_NoConcurrentRenders ==
    Cardinality({ h \in Handlers : web[h].pc = "render" }) <= 1

(* C18: of two consecutive successful renders of the same plugin, when the
   later one was triggered without force it happens at least that plugin's
   update_interval after the earlier one. *)
C18_UnforcedRendersAreSpaced ==
    [][ \A p \in Names :
          (/\ call'.name = p /\ ~call'.force
           /\ call'.renders = 1 /\ call'.outcome = "ok"
           /\ last_update_times[p] # NoTime)
          => /\ now - last_update_times[p] >= update_interval[p]
             /\ last_update_times'[p] - last_update_times[p] >= update_interval[p]
      ]_vars

C18_Witness ==
    /\ call.op \in {"run", "update"}
    /\ ~call.force
    /\ call.renders = 1
    /\ call.outcome = "ok"
    /\ update_interval[call.name] >= 1
    /\ last_update_times[call.name] >= update_interval[call.name]

(* C20: get_plugin_status returns one entry per loaded plugin in load
   order; an entry's needs_update is the due test of its plugin at that
   moment, its last_update is the recorded timestamp or none when the plugin
   never rendered successfully, its current flag is true exactly for
   current_plugin, so at most one entry is current; the call changes neither
   current_plugin nor any last-run entry. *)
C20_StatusListsLoadedPlugins ==
    [][ (call'.op = "status")
        => /\ Len(status') = Len(plugins)
           /\ \A i \in 1..Len(plugins) :
                /\ status'[i].name = plugins[i]
                /\ status'[i].needs_update
                     <=> DueAt(plugins[i], last_update_times, now)
                /\ status'[i].last_update =
                     (IF last_update_times[plugins[i]] = NoTime THEN << None >>
                      ELSE << "iso", last_update_times[plugins[i]] >>)
                /\ status'[i].current <=> (plugins[i] = current_plugin)
           /\ Cardinality({ i \in 1..Len(status') : status'[i].current }) <= 1
           /\ Unchanged
      ]_vars

C20_Witness ==
    /\ call.op = "status"
    /\ Len(status) >= 2
    /\ \E i \in 1..Len(status) : status[i].current /\ ~status[i].needs_update
    /\ \E i \in 1..Len(status) : status[i].last_update = << None >>

----------------------------------------------------------------------------
(* Properties of loading, checked under LoadSpec *)

(* the name has an implementation whose construction succeeds *)
Constructible(n) == loader.kind[n] \in {"ok", "base_first"}

FirstIndex(seq, x) == CHOOSE i \in 1..Len(seq) :
                        seq[i] = x /\ \A j \in 1..(i - 1) : seq[j] # x

(* C19: loading the enabled list skips every name whose implementation is
   missing or whose construction fails and loads all other names; the
   registry then holds exactly those names, in the order of their first
   occurrence in the enabled list, and no name twice. *)
C19_LoadSkipsOnlyFailingNames ==
    (loader.pc \in {"done", "raised"} /\ loader.dir)
        => /\ Range(plugins) = { n \in Range(loader.enabled) : Constructible(n) }
           /\ \A i, j \in 1..Len(plugins) : (i # j) => plugins[i] # plugins[j]
           /\ \A i, j \in 1..Len(plugins) :
                (i < j) => FirstIndex(loader.enabled, plugins[i])
                             < FirstIndex(loader.enabled, plugins[j])

----------------------------------------------------------------------------
(* Further properties of the scheduler, checked under Spec *)

(* C22: the update_interval the scheduler uses for every loaded plugin is
   strictly greater than 0 (a configured 0 is replaced by a baseline), so
   no plugin is due again at the instant it finished a successful run. *)
C22_IntervalsArePositive ==
    /\ \A p \in Names : IsLoaded(p) => update_interval[p] > 0
    /\ \A p \in Names :
          (IsLoaded(p) /\ call.name = p /\ call.outcome = "ok"
                /\ last_update_times[p] = now)
          => ~DueAt(p, last_update_times, now)

(* C25: run(P, force), whether it skips, succeeds or fails, never changes
   the last-run entry of a plugin other than P and never adds or removes a
   registry entry. *)
C25_RunTouchesOnlyItsOwnSchedule ==
    [][ (call'.op \in {"run", "update", "cycle"} /\ call'.name # None)
        => /\ \A q \in Names :
                (q # call'.name) => last_update_times'[q] = last_update_times[q]
           /\ plugins' = plugins
      ]_vars

C25_Witness ==
    /\ call.op = "run"
    /\ call.outcome = "ok"
    /\ \E q \in Names :
          /\ q # call.name
          /\ IsLoaded(q)
          /\ last_update_times[q] # NoTime
          /\ last_update_times[q] < last_update_times[call.name]

(* C26: after any sequence of run_plugin, update_display and cycle calls
   made one at a time, if current_plugin is set then its last-run entry is
   set and no other plugin has a later last-run timestamp. *)
C26_CurrentIsMostRecentSuccess ==
    (current_plugin # None)
        => /\ last_update_times[current_plugin] # NoTime
           /\ \A q \in Names :
                last_update_times[q] <= last_update_times[current_plugin]

C26_Witness ==
    /\ current_plugin # None
    /\ call.outcome # "ok"
    /\ call.renders = 1
    /\ call.name # current_plugin
    /\ \E q \in Names : q # current_plugin /\ last_update_times[q] # NoTime

NeverRendered == \A p \in Names : last_update_times[p] = NoTime

C28_Target ==
    IF IsLoaded(default_plugin) THEN default_plugin
    ELSE IF Len(plugins) > 0 THEN plugins[1]
    ELSE None

(* C28: while no plugin has ever rendered successfully, every
   update_display() targets the same plugin, the configured default if it
   is loaded and otherwise the first loaded name; when that render fails no
   other plugin is tried, current_plugin stays unset and the next
   update_display() has the same target. *)
C28_UpdateKeepsTargetWhileNothingRendered ==
    [][ (NeverRendered /\ call'.op = "update")
        => /\ current_plugin = None
           /\ call'.name = C28_Target
           /\ call'.renders <= 1
           /\ (call'.outcome # "ok")
                => /\ current_plugin' = None
                   /\ NeverRendered'
                   /\ C28_Target' = C28_Target
      ]_vars

C28_Witness ==
    /\ call.op = "update"
    /\ call.renders = 1
    /\ call.outcome # "ok"
    /\ NeverRendered
    /\ current_plugin = None
    /\ Len(plugins) >= 2
    /\ call.name = default_plugin
    /\ plugins[1] # default_plugin

(* C29: when the render of the plugin targeted by cycle() fails,
   current_plugin is unchanged and the next cycle() targets that same
   plugin again: cycling moves past a plugin only after it has rendered
   successfully. *)
C29_FailedCycleDoesNotAdvance ==
    [][ (call'.op = "cycle" /\ call'.renders = 1 /\ call'.outcome # "ok")
        => /\ current_plugin' = current_plugin
           /\ C6_Target' = call'.name
      ]_vars

C29_Witness ==
    /\ call.op = "cycle"
    /\ call.renders = 1
    /\ call.outcome # "ok"
    /\ current_plugin # None
    /\ Len(plugins) >= 2
    /\ call.name # current_plugin

----------------------------------------------------------------------------
(* Further properties of the daemon, checked under DaemonSpec *)

(* The lifecycle state of the spec that a place of control belongs to.     *)
(* Initializing is passed through inside the step that calls initialize(). *)
Phase(d) ==
    IF d.pc \in RunningPcs THEN "Running"
    ELSE IF d.pc \in {"stop_registry", "stop_display"} THEN "Stopping"
    ELSE "Stopped"

(* C23: the daemon lifecycle moves only along Stopped -> Initializing ->
   Running -> Stopping -> Stopped, with no other transition, and
   update_display() is issued only while Running, never after stop() has
   begun and never when initialization failed. *)
C23_LifecycleOrder ==
    [][ /\ (call'.op = "initialize")
            => (daemon.pc = "stopped" /\ Phase(daemon') = "Running")
        /\ (Phase(daemon) = "Stopped" /\ Phase(daemon') # "Stopped")
            => call'.op = "initialize"
        /\ (Phase(daemon) = "Running")
            => Phase(daemon') \in {"Running", "Stopping"}
        /\ (Phase(daemon) = "Stopping")
            => Phase(daemon') \in {"Stopping", "Stopped"}
        /\ (call'.op = "update")
            => (Phase(daemon) = "Running" /\ daemon.running)
      ]_vars

(* C27: in daemon mode, once some plugin has rendered successfully every
   later update_display() targets that same plugin, and no other loaded
   plugin is ever rendered. *)
C27_DaemonStaysOnRenderedPlugin ==
    [][ \A p \in Names :
          (last_update_times[p] # NoTime)
          => /\ (call'.op = "update") => call'.name = p
             /\ (call'.renders = 1) => call'.name = p
             /\ \A q \in Names : (q # p) => last_update_times'[q] = NoTime
      ]_vars

C27_Witness ==
    /\ daemon.pc = "sleep"
    /\ call.op = "update"
    /\ call.renders = 1
    /\ call.outcome # "ok"
    /\ call.name = current_plugin
    /\ last_update_times[call.name] # NoTime
    /\ Len(plugins) >= 2

(* C30: after the initial update the daemon issues update_display() at a
   wake only when at least the daemon-level update interval has elapsed
   since its last_update mark; the mark is set after the initial update
   whatever it returned, and afterwards advances only when a scheduled
   update_display() returns success, so after a failed scheduled update the
   interval is still elapsed at the next wake. *)
C30_MarkAdvancesOnlyOnSuccess ==
    [][ /\ (daemon.pc = "initial_update" /\ daemon'.pc = "loop")
            => daemon'.last_update = now'
        /\ DaemonWakes
            => /\ (call'.op = "update")
                    => now - daemon.last_update >= daemon.update_interval
               /\ (call'.op = "update" /\ call'.result = "true")
                    => daemon'.last_update = now
               /\ (call'.op # "update" \/ call'.result # "true")
                    => daemon'.last_update = daemon.last_update
               /\ (call'.op = "update" /\ call'.result # "true")
                    => now' - daemon'.last_update >= daemon'.update_interval
      ]_vars

C30_Witness ==
    /\ daemon.pc = "sleep"
    /\ call.op = "update"
    /\ call.result = "false"
    /\ daemon.update_interval >= 1
    /\ now - daemon.last_update >= daemon.update_interval

----------------------------------------------------------------------------
(* Property of the one-shot modes, checked under SingleSpec *)

(* C21: every plugin instance created at load time is destroyed through an
   explicit cleanup call before the process ends, in the one-shot update,
   the explicit-plugin run and the daemon: when the process has ended, a
   plugin manager that was built holds no instance that was not cleaned. *)
C21_InstancesCleanedBeforeExit ==
    (daemon.pc = "done" /\ daemon.plugin_manager)
        => (plugins = << >> /\ daemon.registry_cleanups >= 1)

----------------------------------------------------------------------------
(* Property of consecutive cycle() calls, checked under CycleSpec *)

IndexOf(p) == CHOOSE i \in 1..Len(plugins) : plugins[i] = p

(* C24: cycle() is a round robin: from any state with n >= 1 loaded
   plugins, n consecutive cycle() calls whose renders succeed render every
   loaded plugin exactly once, in load order with wrap-around, and a
   current_plugin that was set at the start is current again afterwards. *)
C24_CycleIsRoundRobin ==
    /\ \A i \in 1..Len(round.seq) : IsLoaded(round.seq[i])
    /\ \A i \in 1..(Len(round.seq) - 1) :
          IndexOf(round.seq[i + 1]) = (IndexOf(round.seq[i]) % Len(plugins)) + 1
    /\ (Len(plugins) >= 1 /\ Len(round.seq) = Len(plugins))
        => /\ \A p \in Names :
                IsLoaded(p)
                => Cardinality({ i \in 1..Len(round.seq) : round.seq[i] = p }) = 1
           /\ (round.start # None) => current_plugin = round.start

C24_Witness ==
    /\ Len(plugins) = 3
    /\ Len(round.seq) = 3
    /\ round.start = plugins[2]
    /\ current_plugin = plugins[2]
    /\ round.seq = << plugins[3], plugins[1], plugins[2] >>

====
